---- MODULE Spec2Model ----
(***************************************************************************)
(* pb: a file-sharing worker.  Authenticated clients upload files or       *)
(* directory batches to an object store (R2) with one metadata row per     *)
(* object (D1); anyone can GET /f/{key}; owners DELETE /f/{key}; a         *)
(* scheduled sweeper removes expired records.                              *)
(*                                                                         *)
(* Strings are modelled as sequences of one-character strings.  A base id  *)
(* (nanoid) is one symbol "G1", "G2", ...: its alphabet has no '/'.        *)
(* Time is counted in ticks; SubSec ticks make one second (JavaScript      *)
(* dates compare at tick resolution, SQLite's datetime() at seconds).      *)
(***************************************************************************)
EXTENDS Integers, Sequences, FiniteSets, TLC

\* ---------------------------------------------------------------- bounds
MaxLen == 4        \* longest raw path handed to the sanitizer alone
MaxUploads == 2    \* upload calls per behaviour
MaxServes == 2     \* GET /f/{key} requests per behaviour
MaxDeletes == 1    \* DELETE /f/{key} requests per behaviour
MaxSweeps == 1     \* scheduled sweeper invocations per behaviour
MaxFaults == 1     \* store operations that throw per behaviour
MaxTime == 2       \* last tick of the clock
MaxExpiration == 1 \* MAX_EXPIRATION_MS (30 days in the source), in ticks
MaxInFlight == 2   \* requests (sweeper included) running at the same time
MaxRequests == 3   \* requests (sweeper included) per behaviour
SubSec == 2        \* ticks per second
BatchSize == 2     \* the sweeper's LIMIT (100 in the source, scaled)

NULL == -1

VARIABLES
  now,      \* the clock, in ticks
  db,       \* the uploads table: a set of rows
  bucket,   \* the object store: a set of blobs, at most one per key
  nextId,   \* base ids handed out so far
  started,  \* requests and sweeper runs started so far
  up,       \* upload calls, by base id index
  sv,       \* GET requests
  dl,       \* DELETE requests
  sw,       \* the sweeper
  ls,       \* the GET /list request
  sweeps,   \* sweeper invocations finished
  faults,   \* store operations that have thrown
  rq,       \* the request whose Authorization header fetch has examined last
  forms,    \* the forms clients send (fixed by Init)
  lim,      \* the workload of this behaviour (fixed by Init)
  sanIn,    \* sanitizer under test: raw path
  sanOut    \* sanitizer under test: <<result>> once called, else <<>>

vars == <<now, db, bucket, nextId, started, up, sv, dl, sw, sweeps, faults, ls, rq, forms, lim, sanIn, sanOut>>

\* ------------------------------------------------------------- strings
RECURSIVE SplitAcc(_, _, _)
\* String.prototype.split(sep): s cut at every sep, empty pieces kept.
SplitAcc(s, sep, cur) ==
  IF s = <<>> THEN <<cur>>
  ELSE IF Head(s) = sep THEN <<cur>> \o SplitAcc(Tail(s), sep, <<>>)
  ELSE SplitAcc(Tail(s), sep, Append(cur, Head(s)))

Split(s, sep) == SplitAcc(s, sep, <<>>)

RECURSIVE Join(_, _)
\* Array.prototype.join(sep)
Join(segs, sep) ==
  IF segs = <<>> THEN <<>>
  ELSE IF Len(segs) = 1 THEN segs[1]
  ELSE segs[1] \o <<sep>> \o Join(Tail(segs), sep)

RECURSIVE Filter(_, _)
Filter(segs, drop) ==
  IF segs = <<>> THEN <<>>
  ELSE IF Head(segs) \in drop THEN Filter(Tail(segs), drop)
  ELSE <<Head(segs)>> \o Filter(Tail(segs), drop)

Includes(s, c) == \E i \in 1..Len(s) : s[i] = c

StartsWith(s, p) == Len(s) >= Len(p) /\ SubSeq(s, 1, Len(p)) = p

\* path.replace(/\\/g, '/')
ReplaceBackslashes(s) == [i \in 1..Len(s) |-> IF s[i] = "\\" THEN "/" ELSE s[i]]

\* .replace(/^\.\//, '')
StripLeadingDotSlash(s) ==
  IF StartsWith(s, <<".", "/">>) THEN SubSeq(s, 3, Len(s)) ELSE s

DotDot == <<".", ".">>

\* a sanitizer that forgets to drop '..' (mutant)
SanitizeKeepingDotDot(path) ==
  Join(Filter(Split(StripLeadingDotSlash(ReplaceBackslashes(path)), "/"),
              {<<>>, <<".">>}), "/")

sanitizeRelativePath(path) ==
  LET normalized == StripLeadingDotSlash(ReplaceBackslashes(path))
      segments == Filter(Split(normalized, "/"), {<<>>})    \* filter(Boolean)
      safeSegments == Filter(segments, {<<".">>, DotDot})
  IN Join(safeSegments, "/")

\* ------------------------------------------------------------ data model
Owners == {1, 2}                      \* api_keys.id of the active keys
GidSym == <<"G1", "G2", "G3", "G4">>  \* the base ids nanoid(12) returns, in order
NoPath == <<"<null>">>                \* relative_path IS NULL
JunkKey == <<"zz">>                   \* a key no upload ever produced

\* an id generator that returns the same id again (mutant)
BaseIdReused(u) == <<GidSym[1]>>

baseId(u) == <<GidSym[u]>>

\* The i-th file part of a form carries i bytes.

fileSize(i) == i

\* a rule that looks at the flag alone (mutant)
IsDirectoryByFlagOnly(directoryFlag, files) == directoryFlag

\* upload.ts 113-116
isDirectoryUpload(directoryFlag, files) ==
  \/ directoryFlag
  \/ Len(files) > 1
  \/ \E i \in 1..Len(files) : Includes(sanitizeRelativePath(files[i]), "/")

\* an object key that forgets the base id (mutant)
ObjectKeyWithoutBase(u, isDir, relativePath) ==
  IF isDir THEN relativePath ELSE baseId(u)

\* upload.ts 126-128
ObjectKey(u, isDir, relativePath) ==
  IF isDir THEN baseId(u) \o <<"/">> \o relativePath ELSE baseId(u)

\* upload.ts 124: relativePath.split('/').pop() || file.name
OriginalName(relativePath, name) ==
  LET parts == Split(relativePath, "/")
      last == parts[Len(parts)]
  IN IF last = <<>> THEN name ELSE last

\* a range check without the 30-day horizon (mutant)
ExpirationAcceptedNoHorizon(e, t) == e > t

\* upload.ts 63-72, on a well-formed timestamp e at call time t
ExpirationAccepted(e, t) == e > t /\ e - t <= MaxExpiration

\* The expires_at field of a form, by what the code tells apart:
\*   absent    no such field, or a field that is not a string
\*   blank     a string that is empty once trimmed
\*   malformed a string that ISO_8601_UTC_REGEX does not match
\*   invalid   a string the regex matches and new Date() cannot parse (month 13)
\*   iso       a timestamp (surrounding blanks trimmed), at tick t
RawExpiration(kind, t) == [kind |-> kind, t |-> t]
Absent == RawExpiration("absent", 0)
Blank == RawExpiration("blank", 0)
Iso(t) == RawExpiration("iso", t)

\* upload.ts 44-75: the normalized timestamp, or the throw
normalizeExpiration(raw, t) ==
  IF raw.kind \in {"blank", "malformed", "invalid"}
  THEN [ok |-> FALSE, value |-> NULL]       \* 'Invalid expires_at timestamp'
  ELSE IF ~ExpirationAccepted(raw.t, t)
  THEN [ok |-> FALSE, value |-> NULL]       \* 'must be in the future' / 'within 30 days'
  ELSE [ok |-> TRUE, value |-> raw.t]       \* parsed.toISOString()

\* an expiry decision that takes what it cannot read for no expiry (mutant)
ExpiresAtLenient(raw, t) ==
  IF raw.kind = "iso" THEN normalizeExpiration(raw, t) ELSE [ok |-> TRUE, value |-> NULL]

\* upload.ts 87-88, 98-108: expiresAt stays null unless the field is a string
\* that is not blank; a throw of normalizeExpiration becomes the 400 response
ExpiresAt(raw, t) ==
  IF raw.kind \in {"absent", "blank"}
  THEN [ok |-> TRUE, value |-> NULL]
  ELSE normalizeExpiration(raw, t)

\* a lookup that finds a blob under every key (mutant)
HasBlobAlways(k) == TRUE

HasBlob(k) == \E b \in bucket : b.key = k

\* a table without the UNIQUE constraint on file_id (mutant)
HasRowNever(k) == FALSE

HasRow(k) == \E r \in db : r.file_id = k

\* R2 put: the blob under the key is replaced
Put(k, size, gid) ==
  {b \in bucket : b.key # k} \cup {[key |-> k, size |-> size, groupId |-> gid]}

\* a delete that leaves the blob (mutant)
RemoveNothing(k) == bucket

\* R2 delete: no error when the key is absent
Remove(k) == {b \in bucket : b.key # k}

\* A store operation may throw; the model injects at most MaxFaults throws.
CanFail == faults < MaxFaults
Fail == faults' = faults + 1
NoFail == faults' = faults

\* Requests that have started and not yet answered.
InFlight ==
  Cardinality({u \in 1..MaxUploads : up[u].pc \in {"put", "insert"}})
  + Cardinality({s \in 1..MaxServes : sv[s].pc \in {"dir", "get", "upd"}})
  + Cardinality({d \in 1..MaxDeletes : dl[d].pc \notin {"idle", "done"}})
  + (IF sw.pc \in {"idle", "done"} THEN 0 ELSE 1)
CanStart == InFlight < MaxInFlight /\ started < lim.requests
Start == started' = started + 1

IdleUpload ==
  [pc |-> "idle", owner |-> 0, files |-> <<>>, paths |-> <<>>, idx |-> 0, dir |-> FALSE,
   flag |-> FALSE, raw |-> Absent, exp |-> NULL, status |-> 0, total |-> 0,
   types |-> <<>>]

\* The keys a request may name: every key in either store, every key a running
\* upload will write, every base id handed out, and one key no upload produced.
PlannedKeys(u) ==
  {ObjectKey(u, up[u].dir, up[u].paths[i]) : i \in 1..Len(up[u].files)}
KnownKeys ==
  {r.file_id : r \in db} \cup {b.key : b \in bucket}
  \cup UNION {PlannedKeys(u) \cup {baseId(u)} : u \in 1..nextId} \cup {JunkKey}

\* encodeURIComponent on the characters of the model: letters, digits, '.',
\* '-' and '_' stay, the others become their percent code
PercentCode ==
  [c \in {"/", "\\", "%", " ", "\""} |->
     CASE c = "/" -> <<"%", "2", "F">>
       [] c = "\\" -> <<"%", "5", "C">>
       [] c = "%" -> <<"%", "2", "5">>
       [] c = " " -> <<"%", "2", "0">>
       [] c = "\"" -> <<"%", "2", "2">>]

RECURSIVE encodeURIComponent(_)
encodeURIComponent(s) ==
  IF s = <<>> THEN <<>>
  ELSE (IF Head(s) \in DOMAIN PercentCode THEN PercentCode[Head(s)] ELSE <<Head(s)>>)
       \o encodeURIComponent(Tail(s))

\* ------------------------------------------------------------ fetch: auth
\* The api_keys table: two active keys and a deactivated one.
ApiKeys ==
  {[id |-> 1, key |-> <<"k1">>, is_active |-> 1],
   [id |-> 2, key |-> <<"k2">>, is_active |-> 1],
   [id |-> 3, key |-> <<"k3">>, is_active |-> 0]}

\* Authorization headers: none; another scheme; the scheme in lower case or
\* without the blank; a Bearer header with no token, with an unknown token
\* and with the token of each key. A header is the sequence of its scheme,
\* blank included, and its token.
NoHeader == <<>>
Bearer(token) == <<"Bearer ">> \o token
Headers ==
  {NoHeader, <<"Basic ", "k1">>, <<"bearer ", "k1">>, <<"Bearer", "k1">>,
   Bearer(<<>>), Bearer(<<"zz">>)} \cup {Bearer(k.key) : k \in ApiKeys}

Routes == {"upload", "delete", "list"}

\* a key lookup that does not look at is_active (mutant)
MatchingKeysAnyState(apiKey) == {k \in ApiKeys : k.key = apiKey}

\* auth.ts 14-16: SELECT * FROM api_keys WHERE key = ? AND is_active = 1
MatchingKeys(apiKey) == {k \in ApiKeys : k.key = apiKey /\ k.is_active = 1}

\* a header test that accepts every header that is present (mutant)
HasBearerIfPresent(authHeader) == authHeader # NoHeader

\* index.ts 320, 349, 371: authHeader && authHeader.startsWith('Bearer ')
HasBearer(authHeader) == authHeader # NoHeader /\ StartsWith(authHeader, <<"Bearer ">>)

IdleFetch ==
  [pc |-> "idle", route |-> "", header |-> NoHeader, fileId |-> <<>>, caller |-> 0,
   status |-> 0, serial |-> 0, path |-> <<>>]

\* The handler of the route may be invoked: fetch has validated the key of the
\* request and has not yet called the handler.
Authorized(route) == rq.pc = "handler" /\ rq.route = route /\ rq.serial = started

\* index.ts 318-335, 347-362, 369-384 with auth.ts 12-29: the header test, then
\* validateApiKey, whose catch turns a throw of the database into null
Authenticate(req) ==
  LET authHeader == req.header
      apiKey == Tail(authHeader)                      \* authHeader.substring(7)
  IN IF ~HasBearer(authHeader)
     THEN /\ rq' = [req EXCEPT !.pc = "done", !.status = 401]
          /\ NoFail
     ELSE \/ /\ MatchingKeys(apiKey) = {} /\ NoFail
             /\ rq' = [req EXCEPT !.pc = "done", !.status = 403]
          \/ /\ NoFail
             /\ \E validKey \in MatchingKeys(apiKey) :
                  rq' = [req EXCEPT !.pc = "handler", !.caller = validKey.id]
          \/ /\ CanFail /\ Fail                     \* auth.ts 25-28
             /\ rq' = [req EXCEPT !.pc = "done", !.status = 403]

\* POST /upload and GET /list, and DELETE /f/{key} once the key is decoded
FetchAuth(route, authHeader) ==
  /\ ~\E r \in Routes : Authorized(r)
  /\ Authenticate([IdleFetch EXCEPT !.route = route, !.header = authHeader,
                                   !.serial = started])
  /\ UNCHANGED <<now, db, bucket, nextId, started, up, sv, dl, sw, sweeps, ls, forms, lim, sanIn, sanOut>>

\* decodeURIComponent on the escapes of the model: the percent codes of
\* PercentCode decode to their character; a '%' that is followed by anything
\* else (nothing, one character, no hexadecimal digits, a byte that is not
\* UTF-8) makes it throw a URIError
PercentChar ==
  [code \in {PercentCode[c] : c \in DOMAIN PercentCode} |->
     CHOOSE c \in DOMAIN PercentCode : PercentCode[c] = code]

RECURSIVE decodeURIComponent(_)
decodeURIComponent(s) ==
  IF s = <<>> THEN [ok |-> TRUE, value |-> <<>>]
  ELSE IF Head(s) # "%"
  THEN LET rest == decodeURIComponent(Tail(s))
       IN [ok |-> rest.ok, value |-> <<Head(s)>> \o rest.value]
  ELSE IF Len(s) >= 3 /\ SubSeq(s, 1, 3) \in DOMAIN PercentChar
  THEN LET rest == decodeURIComponent(SubSeq(s, 4, Len(s)))
       IN [ok |-> rest.ok, value |-> <<PercentChar[SubSeq(s, 1, 3)]>> \o rest.value]
  ELSE [ok |-> FALSE, value |-> <<>>]

Methods == {"GET", "DELETE", "PUT", "OPTIONS"}

\* index.ts 297-345: a request whose path is '/f/' followed by rawFileId. The
\* key is decoded before the method is looked at and outside any try: when
\* decodeURIComponent throws, the exception leaves fetch (pc "thrown").
FileRoute(req, method, rawFileId) ==
  LET fileId == decodeURIComponent(rawFileId)
  IN IF method = "OPTIONS"
     THEN rq' = [req EXCEPT !.pc = "done", !.status = 200] /\ NoFail
     ELSE IF rawFileId = <<>>
     THEN rq' = [req EXCEPT !.pc = "done", !.status = 400] /\ NoFail
     ELSE IF ~fileId.ok
     THEN rq' = [req EXCEPT !.pc = "thrown"] /\ NoFail
     ELSE IF method = "GET"
     THEN /\ rq' = [req EXCEPT !.pc = "handler", !.route = "get",
                               !.fileId = fileId.value]
          /\ NoFail
     ELSE IF method = "DELETE"
     THEN Authenticate([req EXCEPT !.route = "delete", !.fileId = fileId.value])
     ELSE rq' = [req EXCEPT !.pc = "done", !.status = 405] /\ NoFail

\* the request, given by what follows '/f/' in its path
FetchFile(method, rawFileId, authHeader) ==
  /\ ~\E r \in Routes \cup {"get"} : Authorized(r)
  /\ FileRoute([IdleFetch EXCEPT !.header = authHeader, !.serial = started],
               method, rawFileId)
  /\ UNCHANGED <<now, db, bucket, nextId, started, up, sv, dl, sw, sweeps, ls, forms, lim, sanIn, sanOut>>

\* String.prototype.split with a separator of several characters
RECURSIVE SplitOn(_, _, _)
SplitOn(s, sep, cur) ==
  IF s = <<>> THEN <<cur>>
  ELSE IF StartsWith(s, sep)
  THEN <<cur>> \o SplitOn(SubSeq(s, Len(sep) + 1, Len(s)), sep, <<>>)
  ELSE SplitOn(Tail(s), sep, Append(cur, Head(s)))

FilePrefix == <<"/", "f", "/">>

\* index.ts 304: url.pathname.split('/f/')[1]; undefined is the empty key here
RawFileId(pathname) ==
  LET parts == SplitOn(pathname, FilePrefix, <<>>)
  IN IF Len(parts) >= 2 THEN parts[2] ELSE <<>>

\* index.ts 303-345: the request, given by its whole path
FetchPath(method, pathname, authHeader) ==
  /\ ~\E r \in Routes \cup {"get"} : Authorized(r)
  /\ StartsWith(pathname, FilePrefix)
  /\ FileRoute([IdleFetch EXCEPT !.header = authHeader, !.serial = started,
                                !.path = pathname],
               method, RawFileId(pathname))
  /\ UNCHANGED <<now, db, bucket, nextId, started, up, sv, dl, sw, sweeps, ls, forms, lim, sanIn, sanOut>>

\* ------------------------------------------------------------- handleUpload
\* upload.ts 85-116: parse the form, validate, draw the base id.
UploadStart(o, files, directoryFlag, raw, types) ==
  /\ nextId < lim.uploads /\ CanStart
  /\ o <= nextId + 1          \* key ids are numbered in the order of first upload
  /\ LET u == nextId + 1
         expiresAt == ExpiresAt(raw, now)
         rejected == files = <<>> \/ ~expiresAt.ok
     IN /\ nextId' = u
        /\ up' = [up EXCEPT ![u] =
             IF rejected
             THEN [IdleUpload EXCEPT !.pc = "done", !.owner = o, !.status = 400,
                                    !.files = files, !.flag = directoryFlag, !.raw = raw]
             ELSE [pc |-> "put", owner |-> o, files |-> files,
                   paths |-> [i \in 1..Len(files) |-> sanitizeRelativePath(files[i])],
                   idx |-> 1, dir |-> isDirectoryUpload(directoryFlag, files),
                   flag |-> directoryFlag, raw |-> raw, exp |-> expiresAt.value,
                   status |-> 0, total |-> 0, types |-> types]]
  /\ Start
  /\ UNCHANGED <<now, db, bucket, sv, dl, sw, sweeps, faults, ls, rq, forms, lim, sanIn, sanOut>>

\* upload.ts 121-140: bucket.put of the current file
UploadPut(u) ==
  /\ up[u].pc = "put"
  /\ LET i == up[u].idx
         relativePath == up[u].paths[i]      \* sanitizeRelativePath(file.name)
         objectKey == ObjectKey(u, up[u].dir, relativePath)
     IN \/ /\ bucket' = Put(objectKey, fileSize(i), baseId(u))
           /\ up' = [up EXCEPT ![u].pc = "insert"]
           /\ NoFail
        \/ /\ CanFail /\ Fail                       \* upload.ts 198-204
           /\ up' = [up EXCEPT ![u].pc = "done", ![u].status = 500]
           /\ UNCHANGED bucket
  /\ UNCHANGED <<now, db, nextId, started, sv, dl, sw, sweeps, ls, rq, forms, lim, sanIn, sanOut>>

\* A content type is the sequence of its top-level part, '/' included, and its
\* subtype; NoType is the empty string of a part that declares none.
NoType == <<>>
OctetStream == <<"application/", "octet-stream">>
TextPlain == <<"text/", "plain">>
Zip == <<"application/", "zip">>

\* upload.ts 125: file.type || 'application/octet-stream'
ContentType(type) == IF type = NoType THEN OctetStream ELSE type

\* upload.ts 153-162: the values bound to the INSERT for the i-th file of call u
UploadRow(u, i) ==
  LET relativePath == up[u].paths[i]      \* sanitizeRelativePath(file.name)
  IN [file_id |-> ObjectKey(u, up[u].dir, relativePath), group_id |-> baseId(u),
      original_name |-> OriginalName(relativePath, up[u].files[i]),
      relative_path |-> IF up[u].dir THEN relativePath ELSE NoPath,
      size |-> fileSize(i), content_type |-> ContentType(up[u].types[i]),
      api_key_id |-> up[u].owner, expires_at |-> up[u].exp, access_count |-> 0]

\* upload.ts 142-174: INSERT of the current file's row (file_id is UNIQUE)
UploadInsert(u) ==
  /\ up[u].pc = "insert"
  /\ LET i == up[u].idx
         row == UploadRow(u, i)
         objectKey == row.file_id
         last == i = Len(up[u].files)
     IN \/ /\ ~HasRow(objectKey)
           /\ db' = db \cup {row}
           /\ up' = [up EXCEPT ![u].pc = IF last THEN "done" ELSE "put",
                               ![u].idx = IF last THEN i ELSE i + 1,
                               ![u].total = @ + fileSize(i),
                               ![u].status = IF last THEN 200 ELSE 0]
           /\ NoFail
        \/ /\ HasRow(objectKey)                      \* UNIQUE constraint failed
           /\ up' = [up EXCEPT ![u].pc = "done", ![u].status = 500]
           /\ UNCHANGED db
           /\ NoFail
        \/ /\ CanFail /\ Fail
           /\ up' = [up EXCEPT ![u].pc = "done", ![u].status = 500]
           /\ UNCHANGED db
  /\ UNCHANGED <<now, bucket, nextId, started, sv, dl, sw, sweeps, ls, rq, forms, lim, sanIn, sanOut>>

\* ------------------------------------------------------------------ clock
Tick ==
  /\ now < lim.time
  /\ now' = now + 1
  /\ UNCHANGED <<db, bucket, nextId, started, up, sv, dl, sw, sweeps, faults, ls, rq, forms, lim, sanIn, sanOut>>

\* -------------------------------------------------------------- handleServe
\* gets counts the bucket.get calls of the request; links is the bag of the
\* href values of a directory listing
NoHeaders == [contentType |-> <<>>, contentLength |-> 0, disposition |-> <<>>]

\* body holds the blob that bucket.get returned, headers those of the 200 response
IdleServe ==
  [pc |-> "idle", key |-> <<>>, kind |-> "", seen |-> {}, t |-> 0,
   status |-> 0, gets |-> 0, links |-> <<>>, body |-> {}, headers |-> NoHeaders]

\* serve.ts 3-30: the prefixes of the types a browser shows in place
InlinePrefixes == {<<"text/">>, <<"image/">>, <<"audio/">>, <<"video/">>, <<"font/">>}
shouldDisplayInline(contentType) ==
  \E type \in InlinePrefixes : StartsWith(contentType, type)

\* serve.ts 204-208: `inline; filename="${upload.original_name}"`
ContentDisposition(contentType, originalName) ==
  <<IF shouldDisplayInline(contentType) THEN "inline" ELSE "attachment",
    ";", " ", "filename=", "\"">>
  \o originalName \o <<"\"">>

\* Headers.set throws a TypeError on a value that holds CR or LF
ValidHeaderValue(value) == \A i \in 1..Len(value) : value[i] \notin {"\r", "\n"}

\* serve.ts 196-208: the headers of the 200 response, from the row read first
ResponseHeaders(upload) ==
  LET contentType == IF upload.content_type = NoType THEN OctetStream
                     ELSE upload.content_type
  IN [contentType |-> contentType, contentLength |-> upload.size,
      disposition |-> ContentDisposition(contentType, upload.original_name)]

\* an encoding of the whole id, '/' included (mutant)
EncodeWholeId(fileId) == encodeURIComponent(fileId)

\* serve.ts 32-37
encodeFileIdForUrl(fileId) ==
  LET segments == Split(fileId, "/")
  IN Join([i \in 1..Len(segments) |-> encodeURIComponent(segments[i])], "/")

\* serve.ts 112-119: the href of a row's list item (after the base URL)
Href(file) == <<"/", "f", "/">> \o encodeFileIdForUrl(file.file_id)

\* serve.ts 116-125: one list item per row of the query result
ListItems(results) ==
  [h \in {Href(file) : file \in results} |->
     Cardinality({file \in results : Href(file) = h})]

FirstIdle(f, n) ==
  {s \in 1..n : f[s].pc = "idle" /\ \A s2 \in 1..(s - 1) : f[s2].pc # "idle"}

\* an expiry check that is skipped (mutant)
JsExpiredNever(exp, t) == FALSE

\* serve.ts 107-109, 177-179: expires_at is set and new Date(expires_at) < new Date()
JsExpired(exp, t) == exp # NULL /\ exp < t

\* a read-then-write of the counter from the row the handler read (mutant)
AccessUpdateFromSnapshot(key, seen) ==
  {IF r.file_id = key
   THEN [r EXCEPT !.access_count =
           (CHOOSE x \in {q.access_count : q \in seen} : TRUE) + 1]
   ELSE r : r \in db}

\* serve.ts 192-194: UPDATE ... SET access_count = access_count + 1 WHERE file_id = ?
AccessUpdate(key, seen) ==
  {IF r.file_id = key THEN [r EXCEPT !.access_count = @ + 1] ELSE r : r \in db}

\* serve.ts 77-87, 176-182: SELECT by file_id, then the expiry check
ServeStart(s, key) ==
  /\ s \in FirstIdle(sv, MaxServes) /\ CanStart
  /\ LET found == {r \in db : r.file_id = key}
         req == [IdleServe EXCEPT !.key = key]
     IN \/ /\ found = {} /\ NoFail
           /\ sv' = [sv EXCEPT ![s] = [req EXCEPT !.pc = "dir"]]
        \/ /\ found # {} /\ NoFail
           /\ \E upload \in found :
                sv' = [sv EXCEPT ![s] =
                  IF JsExpired(upload.expires_at, now)
                  THEN [req EXCEPT !.pc = "done", !.kind = "file", !.seen = found,
                                   !.t = now, !.status = 410]
                  ELSE [req EXCEPT !.pc = "get", !.kind = "file", !.seen = found,
                                   !.t = now]]
        \/ /\ CanFail /\ Fail                       \* serve.ts 215-218
           /\ sv' = [sv EXCEPT ![s] = [req EXCEPT !.pc = "done", !.status = 500]]
  /\ Start
  /\ UNCHANGED <<now, db, bucket, nextId, up, dl, sw, sweeps, ls, rq, forms, lim, sanIn, sanOut>>

\* serve.ts 88-174: the key as a group id; the listing is built from the rows alone
ServeDir(s) ==
  /\ sv[s].pc = "dir"
  /\ LET results == {r \in db : r.group_id = sv[s].key}
         withExpiry == {r \in results : r.expires_at # NULL}
         answer(st) == [sv[s] EXCEPT !.pc = "done", !.kind = "dir", !.seen = results,
                                     !.t = now, !.status = st,
                                     !.links = IF st = 200
                                               THEN ListItems(results) ELSE <<>>]
     IN \/ /\ results = {} /\ NoFail
           /\ sv' = [sv EXCEPT ![s] = [@ EXCEPT !.pc = "done", !.status = 404]]
        \/ /\ results # {} /\ withExpiry = {} /\ NoFail
           /\ sv' = [sv EXCEPT ![s] = answer(200)]
        \/ /\ NoFail                    \* find(): the first row that has an expiry
           /\ \E c \in withExpiry :
                sv' = [sv EXCEPT ![s] =
                  answer(IF JsExpired(c.expires_at, now) THEN 410 ELSE 200)]
        \/ /\ CanFail /\ Fail                       \* serve.ts 95-97
           /\ sv' = [sv EXCEPT ![s] = [@ EXCEPT !.pc = "done", !.status = 500]]
  /\ UNCHANGED <<now, db, bucket, nextId, started, up, dl, sw, sweeps, ls, rq, forms, lim, sanIn, sanOut>>

\* serve.ts 184-188: bucket.get
ServeGet(s) ==
  /\ sv[s].pc = "get"
  /\ \/ /\ HasBlob(sv[s].key) /\ NoFail
        /\ sv' = [sv EXCEPT ![s].pc = "upd", ![s].gets = @ + 1,
                            ![s].body = {b \in bucket : b.key = sv[s].key}]
     \/ /\ ~HasBlob(sv[s].key) /\ NoFail
        /\ sv' = [sv EXCEPT ![s].pc = "done", ![s].status = 404, ![s].gets = @ + 1]
     \/ /\ CanFail /\ Fail
        /\ sv' = [sv EXCEPT ![s].pc = "done", ![s].status = 500, ![s].gets = @ + 1]
  /\ UNCHANGED <<now, db, bucket, nextId, started, up, dl, sw, sweeps, ls, rq, forms, lim, sanIn, sanOut>>

\* serve.ts 190-213: the access update, then the 200 response
ServeUpdate(s) ==
  /\ sv[s].pc = "upd"
  /\ \/ /\ db' = AccessUpdate(sv[s].key, sv[s].seen) /\ NoFail
        /\ \E upload \in sv[s].seen :
             LET headers == ResponseHeaders(upload)
             IN sv' = [sv EXCEPT ![s] =
                  IF ValidHeaderValue(headers.disposition)
                  THEN [@ EXCEPT !.pc = "done", !.status = 200, !.headers = headers]
                  ELSE [@ EXCEPT !.pc = "done", !.status = 500]]   \* serve.ts 215-218
     \/ /\ CanFail /\ Fail
        /\ sv' = [sv EXCEPT ![s].pc = "done", ![s].status = 500]
        /\ UNCHANGED db
  /\ UNCHANGED <<now, bucket, nextId, started, up, dl, sw, sweeps, ls, rq, forms, lim, sanIn, sanOut>>

\* ------------------------------------------------------------- handleDelete
IdleDelete ==
  [pc |-> "idle", key |-> <<>>, caller |-> 0, kind |-> "", ids |-> {},
   todo |-> {}, removed |-> {}, status |-> 0, msg |-> "", count |-> 0]

\* delete.ts 26-32, 68-75, 78-81, 83-89: the response
Answer(req, status, msg) == [req EXCEPT !.pc = "done", !.status = status, !.msg = msg]

\* a catch that reports success (mutant)
DeleteFailedSilently(req) == Answer(req, 200, "File deleted successfully")

DeleteFailed(req) == Answer(req, 500, "Delete failed")

\* a bulk delete that stops after one row (mutant)
GroupRowsOneOnly(key, caller) ==
  LET all == {r \in db : r.group_id = key /\ r.api_key_id = caller}
  IN IF all = {} THEN {} ELSE {CHOOSE r \in all : TRUE}

\* delete.ts 63-66: the rows DELETE ... WHERE group_id = ? AND api_key_id = ? removes
GroupRows(key, caller) ==
  {r \in db : r.group_id = key /\ r.api_key_id = caller}

\* a lookup that forgets the owner (mutant)
OwnRowsAnyOwner(key, caller) == {r \in db : r.file_id = key}

\* delete.ts 12-15: SELECT * FROM uploads WHERE file_id = ? AND api_key_id = ?
OwnRows(key, caller) == {r \in db : r.file_id = key /\ r.api_key_id = caller}

\* delete.ts 12-17: the caller is an identity the auth gate validated
DeleteStart(d, key, caller) ==
  /\ d \in FirstIdle(dl, MaxDeletes) /\ CanStart
  /\ LET req == [IdleDelete EXCEPT !.key = key, !.caller = caller]
         upload == OwnRows(key, caller)
     IN \/ /\ upload # {} /\ NoFail
           /\ dl' = [dl EXCEPT ![d] = [req EXCEPT !.pc = "blob1", !.kind = "file"]]
        \/ /\ upload = {} /\ NoFail
           /\ dl' = [dl EXCEPT ![d] = [req EXCEPT !.pc = "group"]]
        \/ /\ CanFail /\ Fail                       \* delete.ts 83-89
           /\ dl' = [dl EXCEPT ![d] = DeleteFailed(req)]
  /\ Start
  /\ UNCHANGED <<now, db, bucket, nextId, up, sv, sw, sweeps, ls, rq, forms, lim, sanIn, sanOut>>

\* delete.ts 19: bucket.delete(fileId)
DeleteBlob(d) ==
  /\ dl[d].pc = "blob1"
  /\ \/ /\ bucket' = Remove(dl[d].key) /\ NoFail
        /\ dl' = [dl EXCEPT ![d].pc = "row1"]
     \/ /\ CanFail /\ Fail
        /\ dl' = [dl EXCEPT ![d] = DeleteFailed(@)]
        /\ UNCHANGED bucket
  /\ UNCHANGED <<now, db, nextId, started, up, sv, sw, sweeps, ls, rq, forms, lim, sanIn, sanOut>>

\* delete.ts 21-32: DELETE of the row, then the 200 response
DeleteRow(d) ==
  /\ dl[d].pc = "row1"
  /\ LET gone == OwnRows(dl[d].key, dl[d].caller)
     IN \/ /\ db' = db \ gone /\ NoFail
           /\ dl' = [dl EXCEPT ![d] =
                [Answer(@, 200, "File deleted successfully")
                   EXCEPT !.removed = {r.file_id : r \in gone}, !.count = 1]]
        \/ /\ CanFail /\ Fail
           /\ dl' = [dl EXCEPT ![d] = DeleteFailed(@)]
           /\ UNCHANGED db
  /\ UNCHANGED <<now, bucket, nextId, started, up, sv, sw, sweeps, ls, rq, forms, lim, sanIn, sanOut>>

\* delete.ts 35-57, 78-81: SELECT file_id ... WHERE group_id = ? AND api_key_id = ?
DeleteGroupSelect(d) ==
  /\ dl[d].pc = "group"
  /\ LET fileIds == {r.file_id : r \in GroupRows(dl[d].key, dl[d].caller)}
     IN \/ /\ fileIds # {} /\ NoFail
           /\ dl' = [dl EXCEPT ![d].pc = "blobs", ![d].kind = "group",
                               ![d].ids = fileIds, ![d].todo = fileIds]
        \/ /\ fileIds = {} /\ NoFail
           /\ dl' = [dl EXCEPT ![d] = Answer(@, 404, "File not found or access denied")]
        \/ /\ CanFail /\ Fail                       \* delete.ts 49-54, 83-89
           /\ dl' = [dl EXCEPT ![d] = DeleteFailed(@)]
  /\ UNCHANGED <<now, db, bucket, nextId, started, up, sv, sw, sweeps, ls, rq, forms, lim, sanIn, sanOut>>

\* delete.ts 59-61: bucket.delete of the next selected key; a throw leaves the loop
DeleteGroupBlob(d) ==
  /\ dl[d].pc = "blobs"
  /\ \E k \in dl[d].todo :
       \/ /\ bucket' = Remove(k) /\ NoFail
          /\ dl' = [dl EXCEPT ![d].todo = @ \ {k},
                              ![d].pc = IF dl[d].todo = {k} THEN "rows" ELSE "blobs"]
       \/ /\ CanFail /\ Fail
          /\ dl' = [dl EXCEPT ![d] = DeleteFailed(@)]
          /\ UNCHANGED bucket
  /\ UNCHANGED <<now, db, nextId, started, up, sv, sw, sweeps, ls, rq, forms, lim, sanIn, sanOut>>

\* delete.ts 63-75: the bulk DELETE, then the 200 response
DeleteGroupRows(d) ==
  /\ dl[d].pc = "rows"
  /\ LET gone == GroupRows(dl[d].key, dl[d].caller)
     IN \/ /\ db' = db \ gone /\ NoFail
           /\ dl' = [dl EXCEPT ![d] =
                [Answer(@, 200, "Folder deleted successfully")
                   EXCEPT !.removed = {r.file_id : r \in gone},
                          !.count = Cardinality(dl[d].ids)]]
        \/ /\ CanFail /\ Fail
           /\ dl' = [dl EXCEPT ![d] = DeleteFailed(@)]
           /\ UNCHANGED db
  /\ UNCHANGED <<now, bucket, nextId, started, up, sv, sw, sweeps, ls, rq, forms, lim, sanIn, sanOut>>

\* ------------------------------------------------------- cleanupExpiredFiles
\* batch: the rows the SELECT returned; todo: the items the loop has yet to take;
\* removed: the items this run removed in full; failed: the items whose removal
\* has thrown in this or an earlier run (kept for the record).
IdleSweep ==
  [pc |-> "idle", batch |-> {}, todo |-> {}, cur |-> <<>>, deleted |-> 0, t |-> 0,
   removed |-> {}, failed |-> {}]

\* SQLite datetime(): the timestamp cut to whole seconds
SqlDatetime(t) == t \div SubSec

\* a selection that matches no row (mutant)
SqlExpiredNever(exp, t) == FALSE

\* part_000 30-31: expires_at IS NOT NULL AND datetime(expires_at) <= datetime('now')
SqlExpired(exp, t) == exp # NULL /\ SqlDatetime(exp) <= SqlDatetime(t)

Min(a, b) == IF a < b THEN a ELSE b

\* a selection with no LIMIT (mutant)
BatchesUnlimited(t) ==
  {{r.file_id : r \in {x \in db : x.expires_at # NULL /\ x.expires_at \div SubSec <= t \div SubSec}}}

\* part_000 27-33: LIMIT ? with no ORDER BY: any batchSize of the matching rows
Batches(t) ==
  LET expired == {r.file_id : r \in {x \in db : SqlExpired(x.expires_at, t)}}
  IN {B \in SUBSET expired : Cardinality(B) = Min(Cardinality(expired), BatchSize)}

\* a loop that ends after its first item (mutant)
SweepStopsAtItem(todo, deleted) ==
  [sw EXCEPT !.pc = "done", !.todo = todo, !.deleted = deleted]

\* the loop's next iteration, or the return at its end (part_000 40, 57)
SweepNext(todo, deleted) ==
  [sw EXCEPT !.pc = IF todo = {} THEN "done" ELSE "blob",
             !.todo = todo, !.deleted = deleted]

\* part_000 22-37, and index.ts 404-413 (the scheduled trigger).  Where the
\* trigger fires for ever (lim.forever) the invocations are counted up to
\* lim.sweeps and no further, and they do not use up the request budget.
SweepStart ==
  /\ sw.pc \in {"idle", "done"}
  /\ IF lim.forever
     THEN /\ InFlight < MaxInFlight
          /\ sweeps' = Min(sweeps + 1, lim.sweeps)
          /\ UNCHANGED started
     ELSE /\ sweeps < lim.sweeps /\ CanStart
          /\ sweeps' = sweeps + 1
          /\ Start
  /\ \/ /\ NoFail
        /\ \E B \in Batches(now) :
             sw' = [IdleSweep EXCEPT !.pc = IF B = {} THEN "done" ELSE "blob",
                                     !.batch = B, !.todo = B, !.t = now,
                                     !.failed = sw.failed]
     \/ /\ CanFail /\ Fail                          \* part_000 35, 58-61
        /\ sw' = [IdleSweep EXCEPT !.pc = "done", !.t = now, !.failed = sw.failed]
  /\ UNCHANGED <<now, db, bucket, nextId, up, sv, dl, ls, rq, forms, lim, sanIn, sanOut>>

\* part_000 43: bucket.delete of the next item; a throw skips the item (52-54)
SweepBlob ==
  /\ sw.pc = "blob"
  /\ \E k \in sw.todo :
       \/ /\ bucket' = Remove(k) /\ NoFail
          /\ sw' = [sw EXCEPT !.pc = "row", !.cur = k]
       \/ /\ CanFail /\ Fail
          /\ sw' = [SweepNext(sw.todo \ {k}, sw.deleted) EXCEPT !.failed = @ \cup {k}]
          /\ UNCHANGED bucket
  /\ UNCHANGED <<now, db, nextId, started, up, sv, dl, sweeps, ls, rq, forms, lim, sanIn, sanOut>>

\* part_000 46-50: DELETE FROM uploads WHERE file_id = ?, then deletedCount++
SweepRow ==
  /\ sw.pc = "row"
  /\ \/ /\ db' = {r \in db : r.file_id # sw.cur} /\ NoFail
        /\ sw' = [SweepNext(sw.todo \ {sw.cur}, sw.deleted + 1)
                    EXCEPT !.removed = @ \cup {sw.cur}]
     \/ /\ CanFail /\ Fail
        /\ sw' = [SweepNext(sw.todo \ {sw.cur}, sw.deleted)
                    EXCEPT !.failed = @ \cup {sw.cur}]
        /\ UNCHANGED db
  /\ UNCHANGED <<now, bucket, nextId, started, up, sv, dl, sweeps, ls, rq, forms, lim, sanIn, sanOut>>

\* --------------------------------------------------------------- handleList
IdleList == [pc |-> "idle", caller |-> 0, status |-> 0, files |-> {}, t |-> 0]

\* list.ts 68-90: remainingTime is 'expired' unless remainingMs > 0
RemainingTime(exp, t) ==
  IF exp = NULL THEN "" ELSE IF exp - t > 0 THEN "left" ELSE "expired"

\* list.ts 45-93: the entry the response carries for a row
FileInfo(r, t) ==
  [fileId |-> r.file_id, groupId |-> r.group_id, expiresAt |-> r.expires_at,
   remainingTime |-> RemainingTime(r.expires_at, t)]

\* a query without the WHERE clause (mutant)
ListRowsOfAnyKey(caller) == db

\* list.ts 18-33: SELECT ... FROM uploads WHERE api_key_id = ?
ListRows(caller) == {x \in db : x.api_key_id = caller}

\* list.ts 15-105: one SELECT of the caller's rows, all of them in the response
List(caller) ==
  /\ ls.pc = "idle" /\ CanStart
  /\ \/ /\ NoFail
        /\ ls' = [pc |-> "done", caller |-> caller, status |-> 200, t |-> now,
                  files |-> {FileInfo(r, now) : r \in ListRows(caller)}]
     \/ /\ CanFail /\ Fail                          \* list.ts 99-104
        /\ ls' = [IdleList EXCEPT !.pc = "done", !.caller = caller, !.status = 500,
                                  !.t = now]
  /\ Start
  /\ UNCHANGED <<now, db, bucket, nextId, up, sv, dl, sw, sweeps, rq, forms, lim, sanIn, sanOut>>

\* ------------------------------------------------------------ specification
Chars == {"a", ".", "/", "\\"}

RawPaths == UNION {[1..n -> Chars] : n \in 0..MaxLen}

\* A form: the names and the declared types of its file parts and its
\* directory_upload flag.
TypedForm(files, directoryFlag, types) ==
  [files |-> files, flag |-> directoryFlag, types |-> types]

\* A form whose parts declare no type.
Form(files, directoryFlag) ==
  TypedForm(files, directoryFlag, [i \in 1..Len(files) |-> NoType])

\* no file; one file, plain or flagged as a directory; two files
UploadForms ==
  {Form(<<>>, FALSE), Form(<<<<"a">>>>, FALSE), Form(<<<<"a">>>>, TRUE),
   Form(<<<<"a">>, <<"b">>>>, FALSE)}

\* A behaviour either has one upload call and a running clock, or several
\* upload calls within one tick.
Workloads ==
  {[uploads |-> 1, time |-> MaxTime, requests |-> MaxRequests,
    sweeps |-> MaxSweeps, forever |-> FALSE],
   [uploads |-> MaxUploads, time |-> 0, requests |-> MaxRequests,
    sweeps |-> MaxSweeps, forever |-> FALSE]}

\* no expiry; a timestamp at the call time, within the horizon, or beyond it
ExpirationInputs == {Absent} \cup {Iso(t) : t \in now..(now + MaxExpiration + 1)}

Init ==
  /\ now = 0
  /\ db = {}
  /\ bucket = {}
  /\ nextId = 0
  /\ started = 0
  /\ up = [u \in 1..MaxUploads |-> IdleUpload]
  /\ sv = [s \in 1..MaxServes |-> IdleServe]
  /\ dl = [d \in 1..MaxDeletes |-> IdleDelete]
  /\ sw = IdleSweep
  /\ ls = IdleList /\ rq = IdleFetch
  /\ sweeps = 0
  /\ faults = 0
  /\ forms = UploadForms
  /\ lim \in Workloads
  /\ sanIn = <<>>
  /\ sanOut = <<>>

Next ==
  \/ \E o \in Owners, f \in forms, e \in ExpirationInputs :
        UploadStart(o, f.files, f.flag, e, f.types)
  \/ \E u \in 1..MaxUploads : UploadPut(u)
  \/ \E u \in 1..MaxUploads : UploadInsert(u)
  \/ \E s \in 1..MaxServes, key \in KnownKeys : ServeStart(s, key)
  \/ \E s \in 1..MaxServes : ServeDir(s)
  \/ \E s \in 1..MaxServes : ServeGet(s)
  \/ \E s \in 1..MaxServes : ServeUpdate(s)
  \/ \E d \in 1..MaxDeletes, key \in KnownKeys, caller \in Owners :
        DeleteStart(d, key, caller)
  \/ \E d \in 1..MaxDeletes : DeleteBlob(d)
  \/ \E d \in 1..MaxDeletes : DeleteRow(d)
  \/ \E d \in 1..MaxDeletes : DeleteGroupSelect(d)
  \/ \E d \in 1..MaxDeletes : DeleteGroupBlob(d)
  \/ \E d \in 1..MaxDeletes : DeleteGroupRows(d)
  \/ SweepStart
  \/ SweepBlob
  \/ SweepRow
  \/ Tick

Spec == Init /\ [][Next]_vars

\* The sanitizer alone, on every raw path up to MaxLen characters.
InitSan ==
  /\ now = 0 /\ db = {} /\ bucket = {} /\ nextId = 0 /\ started = 0
  /\ up = [u \in 1..MaxUploads |-> IdleUpload]
  /\ sv = [s \in 1..MaxServes |-> IdleServe]
  /\ dl = [d \in 1..MaxDeletes |-> IdleDelete]
  /\ sw = IdleSweep /\ ls = IdleList /\ rq = IdleFetch /\ sweeps = 0 /\ faults = 0
  /\ forms = {}
  /\ lim = [uploads |-> 0, time |-> 0, requests |-> 0, sweeps |-> 0, forever |-> FALSE]
  /\ sanIn \in RawPaths
  /\ sanOut = <<>>

SanitizeCall ==
  /\ sanOut = <<>>
  /\ sanOut' = <<sanitizeRelativePath(sanIn)>>
  /\ UNCHANGED <<now, db, bucket, nextId, started, up, sv, dl, sw, sweeps, faults, ls, rq, forms, lim, sanIn>>

NextSan == SanitizeCall

SpecSan == InitSan /\ [][NextSan]_vars

\* The stores as two finished upload calls left them at tick 0 (a single file
\* of owner 1 and a directory batch of owner 2, each with or without an expiry),
\* then the clock, the scheduled sweeper firing again and again, and readers.
StoredUpload(o, files, e) ==
  [pc |-> "done", owner |-> o, files |-> files,
   paths |-> [i \in 1..Len(files) |-> sanitizeRelativePath(files[i])],
   idx |-> Len(files), dir |-> isDirectoryUpload(FALSE, files), flag |-> FALSE,
   raw |-> IF e = NULL THEN Absent ELSE Iso(e), exp |-> e, status |-> 200, total |-> 0,
   types |-> [i \in 1..Len(files) |-> NoType]]

StoredExpirations == {NULL} \cup (1..MaxExpiration)

InitSweep ==
  /\ now = 0
  /\ nextId = 2
  /\ \E e1, e2 \in StoredExpirations :
       up = [u \in 1..MaxUploads |->
               IF u = 1 THEN StoredUpload(1, <<<<"a">>>>, e1)
               ELSE IF u = 2 THEN StoredUpload(2, <<<<"a">>, <<"b">>>>, e2)
               ELSE IdleUpload]
  /\ db = UNION {{UploadRow(u, i) : i \in 1..Len(up[u].files)} : u \in 1..2}
  /\ bucket = {[key |-> r.file_id, size |-> r.size, groupId |-> r.group_id] : r \in db}
  /\ started = 0
  /\ sv = [s \in 1..MaxServes |-> IdleServe]
  /\ dl = [d \in 1..MaxDeletes |-> IdleDelete]
  /\ sw = IdleSweep
  /\ ls = IdleList /\ rq = IdleFetch
  /\ sweeps = 0
  /\ faults = 0
  /\ forms = {}
  /\ lim = [uploads |-> 2, time |-> MaxTime, requests |-> 1,
            sweeps |-> MaxSweeps + 1, forever |-> TRUE]
  /\ sanIn = <<>>
  /\ sanOut = <<>>

NextSweep ==
  \/ SweepStart
  \/ SweepBlob
  \/ SweepRow
  \/ Tick
  \/ \E s \in 1..MaxServes, key \in KnownKeys : ServeStart(s, key)
  \/ \E s \in 1..MaxServes : ServeDir(s)
  \/ \E s \in 1..MaxServes : ServeGet(s)
  \/ \E s \in 1..MaxServes : ServeUpdate(s)
  \/ \E caller \in Owners : List(caller)

\* The scheduler runs the sweeper again and again, and a started run goes on.
SpecSweep ==
  /\ InitSweep /\ [][NextSweep]_vars
  /\ WF_vars(SweepStart) /\ WF_vars(SweepBlob) /\ WF_vars(SweepRow)

\* Upload calls alone, on a wider choice of forms: a nested path, a flagged
\* batch, and two names that are the same once sanitized.
WideForms ==
  UploadForms \cup
  {Form(<<<<"a", "/", "b">>>>, FALSE), Form(<<<<"a">>, <<"b">>>>, TRUE),
   Form(<<<<"a">>, <<".", "/", "a">>>>, FALSE)}

InitUp ==
  /\ now = 0 /\ db = {} /\ bucket = {} /\ nextId = 0 /\ started = 0
  /\ up = [u \in 1..MaxUploads |-> IdleUpload]
  /\ sv = [s \in 1..MaxServes |-> IdleServe]
  /\ dl = [d \in 1..MaxDeletes |-> IdleDelete]
  /\ sw = IdleSweep /\ ls = IdleList /\ rq = IdleFetch /\ sweeps = 0 /\ faults = 0
  /\ forms = WideForms
  /\ lim = [uploads |-> MaxUploads, time |-> 0, requests |-> MaxUploads,
            sweeps |-> 0, forever |-> FALSE]
  /\ sanIn = <<>>
  /\ sanOut = <<>>

NextUp ==
  \/ \E o \in Owners, f \in forms, e \in ExpirationInputs :
        UploadStart(o, f.files, f.flag, e, f.types)
  \/ \E u \in 1..MaxUploads : UploadPut(u)
  \/ \E u \in 1..MaxUploads : UploadInsert(u)

SpecUp == InitUp /\ [][NextUp]_vars

\* Uploads alone, with every kind of expires_at field and a running clock.
WideExpirations ==
  {Absent, Blank, RawExpiration("malformed", 0), RawExpiration("invalid", 0)}
  \cup {Iso(t) : t \in 0..(MaxTime + MaxExpiration + 1)}

InitExp ==
  /\ now = 0 /\ db = {} /\ bucket = {} /\ nextId = 0 /\ started = 0
  /\ up = [u \in 1..MaxUploads |-> IdleUpload]
  /\ sv = [s \in 1..MaxServes |-> IdleServe]
  /\ dl = [d \in 1..MaxDeletes |-> IdleDelete]
  /\ sw = IdleSweep /\ ls = IdleList /\ rq = IdleFetch /\ sweeps = 0 /\ faults = 0
  /\ forms = {Form(<<>>, FALSE), Form(<<<<"a">>>>, FALSE)}
  /\ lim = [uploads |-> MaxUploads, time |-> MaxTime, requests |-> MaxUploads,
            sweeps |-> 0, forever |-> FALSE]
  /\ sanIn = <<>> /\ sanOut = <<>>

NextExp ==
  \/ \E o \in Owners, f \in forms, raw \in WideExpirations :
        UploadStart(o, f.files, f.flag, raw, f.types)
  \/ \E u \in 1..MaxUploads : UploadPut(u)
  \/ \E u \in 1..MaxUploads : UploadInsert(u)
  \/ Tick

SpecExp == InitExp /\ [][NextExp]_vars

\* The authenticated routes behind fetch: a handler starts only for a request
\* whose key fetch has validated, with the identity validateApiKey returned.
InitAuth ==
  /\ now = 0 /\ db = {} /\ bucket = {} /\ nextId = 0 /\ started = 0
  /\ up = [u \in 1..MaxUploads |-> IdleUpload]
  /\ sv = [s \in 1..MaxServes |-> IdleServe]
  /\ dl = [d \in 1..MaxDeletes |-> IdleDelete]
  /\ sw = IdleSweep /\ ls = IdleList /\ rq = IdleFetch /\ sweeps = 0 /\ faults = 0
  /\ forms = {Form(<<<<"a">>>>, FALSE), Form(<<<<"a">>>>, TRUE)}
  /\ lim = [uploads |-> 1, time |-> 0, requests |-> MaxRequests,
            sweeps |-> 0, forever |-> FALSE]
  /\ sanIn = <<>> /\ sanOut = <<>>

NextAuth ==
  \/ \E route \in Routes, authHeader \in Headers : FetchAuth(route, authHeader)
  \/ \E f \in forms :
        Authorized("upload") /\ UploadStart(rq.caller, f.files, f.flag, Absent, f.types)
  \/ \E u \in 1..MaxUploads : UploadPut(u)
  \/ \E u \in 1..MaxUploads : UploadInsert(u)
  \/ \E d \in 1..MaxDeletes, key \in KnownKeys :
        Authorized("delete") /\ DeleteStart(d, key, rq.caller)
  \/ \E d \in 1..MaxDeletes : DeleteBlob(d)
  \/ \E d \in 1..MaxDeletes : DeleteRow(d)
  \/ \E d \in 1..MaxDeletes : DeleteGroupSelect(d)
  \/ \E d \in 1..MaxDeletes : DeleteGroupBlob(d)
  \/ \E d \in 1..MaxDeletes : DeleteGroupRows(d)
  \/ Authorized("list") /\ List(rq.caller)

SpecAuth == InitAuth /\ [][NextAuth]_vars

\* Uploads of one file with and without a declared type, under plain names and
\* names that hold a double quote or a line feed, and the GETs that follow.
TripForms ==
  {TypedForm(<<<<"a">>>>, FALSE, <<NoType>>),
   TypedForm(<<<<"a">>>>, FALSE, <<TextPlain>>),
   TypedForm(<<<<"a">>>>, FALSE, <<Zip>>),
   TypedForm(<<<<"a", "\"">>>>, FALSE, <<TextPlain>>),
   TypedForm(<<<<"a", "\n">>>>, FALSE, <<NoType>>),
   TypedForm(<<<<"a">>, <<"b">>>>, FALSE, <<TextPlain, NoType>>)}

InitTrip ==
  /\ now = 0 /\ db = {} /\ bucket = {} /\ nextId = 0 /\ started = 0
  /\ up = [u \in 1..MaxUploads |-> IdleUpload]
  /\ sv = [s \in 1..MaxServes |-> IdleServe]
  /\ dl = [d \in 1..MaxDeletes |-> IdleDelete]
  /\ sw = IdleSweep /\ ls = IdleList /\ rq = IdleFetch /\ sweeps = 0 /\ faults = 0
  /\ forms = TripForms
  /\ lim = [uploads |-> MaxUploads, time |-> 0, requests |-> MaxRequests,
            sweeps |-> 0, forever |-> FALSE]
  /\ sanIn = <<>> /\ sanOut = <<>>

NextTrip ==
  \/ \E o \in Owners, f \in forms : UploadStart(o, f.files, f.flag, Absent, f.types)
  \/ \E u \in 1..MaxUploads : UploadPut(u)
  \/ \E u \in 1..MaxUploads : UploadInsert(u)
  \/ \E s \in 1..MaxServes, key \in KnownKeys : ServeStart(s, key)
  \/ \E s \in 1..MaxServes : ServeDir(s)
  \/ \E s \in 1..MaxServes : ServeGet(s)
  \/ \E s \in 1..MaxServes : ServeUpdate(s)

SpecTrip == InitTrip /\ [][NextTrip]_vars

\* The file route of fetch over stored files: keys as they stand in a URL path,
\* plain, percent-encoded, and with a '%' that starts no escape.
RawKeys ==
  {<<>>, <<"G1">>, <<"G2">>, <<"G2", "/", "a">>, <<"G2", "%", "2", "F", "a">>,
   <<"%">>, <<"G1", "%", "z", "z">>}

InitFetch ==
  /\ now = 0
  /\ nextId = 2
  /\ up = [u \in 1..MaxUploads |->
             IF u = 1 THEN StoredUpload(1, <<<<"a">>>>, NULL)
             ELSE IF u = 2 THEN StoredUpload(2, <<<<"a">>, <<"b">>>>, NULL)
             ELSE IdleUpload]
  /\ db = UNION {{UploadRow(u, i) : i \in 1..Len(up[u].files)} : u \in 1..2}
  /\ bucket = {[key |-> r.file_id, size |-> r.size, groupId |-> r.group_id] : r \in db}
  /\ started = 0
  /\ sv = [s \in 1..MaxServes |-> IdleServe]
  /\ dl = [d \in 1..MaxDeletes |-> IdleDelete]
  /\ sw = IdleSweep /\ ls = IdleList /\ rq = IdleFetch /\ sweeps = 0 /\ faults = 0
  /\ forms = {}
  /\ lim = [uploads |-> 2, time |-> 0, requests |-> 2, sweeps |-> 0,
            forever |-> FALSE]
  /\ sanIn = <<>> /\ sanOut = <<>>

NextFetch ==
  \/ \E method \in Methods, rawFileId \in RawKeys,
        authHeader \in {NoHeader, Bearer(<<"k1">>), Bearer(<<"k2">>)} :
        FetchFile(method, rawFileId, authHeader)
  \/ \E s \in 1..MaxServes : Authorized("get") /\ ServeStart(s, rq.fileId)
  \/ \E s \in 1..MaxServes : ServeDir(s)
  \/ \E s \in 1..MaxServes : ServeGet(s)
  \/ \E s \in 1..MaxServes : ServeUpdate(s)
  \/ \E d \in 1..MaxDeletes : Authorized("delete") /\ DeleteStart(d, rq.fileId, rq.caller)
  \/ \E d \in 1..MaxDeletes : DeleteBlob(d)
  \/ \E d \in 1..MaxDeletes : DeleteRow(d)
  \/ \E d \in 1..MaxDeletes : DeleteGroupSelect(d)
  \/ \E d \in 1..MaxDeletes : DeleteGroupBlob(d)
  \/ \E d \in 1..MaxDeletes : DeleteGroupRows(d)

SpecFetch == InitFetch /\ [][NextFetch]_vars

\* One upload call of two files, with names that differ, that are equal once
\* sanitized, or of which one sanitizes to the empty path, and the owners'
\* DELETE requests running beside it.
InitRace ==
  /\ now = 0 /\ db = {} /\ bucket = {} /\ nextId = 0 /\ started = 0
  /\ up = [u \in 1..MaxUploads |-> IdleUpload]
  /\ sv = [s \in 1..MaxServes |-> IdleServe]
  /\ dl = [d \in 1..MaxDeletes |-> IdleDelete]
  /\ sw = IdleSweep /\ ls = IdleList /\ rq = IdleFetch /\ sweeps = 0 /\ faults = 0
  /\ forms = {Form(<<<<"a">>, <<"b">>>>, FALSE),
              Form(<<<<"a">>, <<".", "/", "a">>>>, FALSE),
              Form(<<DotDot, <<"a">>>>, FALSE)}
  /\ lim = [uploads |-> 1, time |-> 0, requests |-> 2, sweeps |-> 0,
            forever |-> FALSE]
  /\ sanIn = <<>> /\ sanOut = <<>>

NextRace ==
  \/ \E o \in Owners, f \in forms : UploadStart(o, f.files, f.flag, Absent, f.types)
  \/ \E u \in 1..MaxUploads : UploadPut(u)
  \/ \E u \in 1..MaxUploads : UploadInsert(u)
  \/ \E d \in 1..MaxDeletes, key \in KnownKeys, caller \in Owners :
        DeleteStart(d, key, caller)
  \/ \E d \in 1..MaxDeletes : DeleteBlob(d)
  \/ \E d \in 1..MaxDeletes : DeleteRow(d)
  \/ \E d \in 1..MaxDeletes : DeleteGroupSelect(d)
  \/ \E d \in 1..MaxDeletes : DeleteGroupBlob(d)
  \/ \E d \in 1..MaxDeletes : DeleteGroupRows(d)

SpecRace == InitRace /\ [][NextRace]_vars

\* Stored files whose URLs are requested: a single file, and a directory
\* upload with a member at the top and a member in a folder named f.
UrlFiles == <<<<"a">>, <<"f", "/", "y">>>>

InitUrl ==
  /\ now = 0
  /\ nextId = 2
  /\ up = [u \in 1..MaxUploads |->
             IF u = 1 THEN StoredUpload(1, <<<<"a">>>>, NULL)
             ELSE IF u = 2 THEN StoredUpload(2, UrlFiles, NULL)
             ELSE IdleUpload]
  /\ db = UNION {{UploadRow(u, i) : i \in 1..Len(up[u].files)} : u \in 1..2}
  /\ bucket = {[key |-> r.file_id, size |-> r.size, groupId |-> r.group_id] : r \in db}
  /\ started = 0
  /\ sv = [s \in 1..MaxServes |-> IdleServe]
  /\ dl = [d \in 1..MaxDeletes |-> IdleDelete]
  /\ sw = IdleSweep /\ ls = IdleList /\ rq = IdleFetch /\ sweeps = 0 /\ faults = 0
  /\ forms = {}
  /\ lim = [uploads |-> 2, time |-> 0, requests |-> 2, sweeps |-> 0,
            forever |-> FALSE]
  /\ sanIn = <<>> /\ sanOut = <<>>

\* upload.ts 166-180, list.ts 38-46, serve.ts 112-119: the URL paths handed out
\* for the rows, and for the groups, that are stored
UrlPaths ==
  {FilePrefix \o r.file_id : r \in db} \cup {Href(r) : r \in db}
    \cup {FilePrefix \o r.group_id : r \in db}

\* One request at a time, for a URL that was handed out.
NextUrl ==
  \/ \E method \in {"GET", "DELETE"}, pathname \in UrlPaths,
        authHeader \in {NoHeader, Bearer(<<"k1">>), Bearer(<<"k2">>)} :
        InFlight = 0 /\ FetchPath(method, pathname, authHeader)
  \/ \E s \in 1..MaxServes : Authorized("get") /\ ServeStart(s, rq.fileId)
  \/ \E s \in 1..MaxServes : ServeDir(s)
  \/ \E s \in 1..MaxServes : ServeGet(s)
  \/ \E s \in 1..MaxServes : ServeUpdate(s)
  \/ \E d \in 1..MaxDeletes : Authorized("delete") /\ DeleteStart(d, rq.fileId, rq.caller)
  \/ \E d \in 1..MaxDeletes : DeleteBlob(d)
  \/ \E d \in 1..MaxDeletes : DeleteRow(d)
  \/ \E d \in 1..MaxDeletes : DeleteGroupSelect(d)
  \/ \E d \in 1..MaxDeletes : DeleteGroupBlob(d)
  \/ \E d \in 1..MaxDeletes : DeleteGroupRows(d)

SpecUrl == InitUrl /\ [][NextUrl]_vars

\* ----------------------------------------------------------------- claims
\* What GET /f/{k} answers with 200 for, at this instant: a row that is not
\* expired and whose blob is in the store.
Retrievable(k) ==
  /\ \E r \in db : r.file_id = k /\ ~JsExpired(r.expires_at, now)
  /\ HasBlob(k)

\* The key ids that own the group a key belongs to (none for a foreign key).
KeyOwners(k) ==
  {up[u].owner : u \in {x \in 1..nextId : k # <<>> /\ baseId(x) = <<k[1]>>}}

\* The GET requests that have answered 200 with the file k.
Hits(k) ==
  Cardinality({s \in 1..MaxServes :
     sv[s].pc = "done" /\ sv[s].status = 200 /\ sv[s].kind = "file" /\ sv[s].key = k})

\* C1 (as claimed, for group DELETE): at no step of a group DELETE is one member
\* of the group still retrievable with 200 while another member the DELETE
\* selected has already lost its blob.
C1_GroupDeleteAtomic ==
  \A d \in 1..MaxDeletes :
    dl[d].kind = "group" =>
      ~(/\ \E k \in dl[d].ids \ dl[d].todo : ~HasBlob(k)
        /\ \E k \in dl[d].ids : Retrievable(k))

\* C1 (amended): the rows of a group go in one step: the step of a group DELETE
\* that removes rows leaves no row of that group and owner behind.
C1_GroupRowsRemovedTogether ==
  [][\A d \in 1..MaxDeletes :
       (dl[d].pc = "rows" /\ dl'[d].status = 200) =>
         ~\E r \in db' : r.group_id = dl[d].key /\ r.api_key_id = dl[d].caller]_vars

\* C1 witness: a group DELETE has answered 200 after removing two rows at once.
C1_Witness ==
  \E d \in 1..MaxDeletes :
    /\ dl[d].pc = "done" /\ dl[d].kind = "group" /\ dl[d].status = 200
    /\ Cardinality(dl[d].removed) >= 2

\* C2: after a group DELETE has answered 200, no member it selected or whose row
\* it removed has a blob in the object store or a row in the table.
C2_GroupDeleteRemovesAll ==
  \A d \in 1..MaxDeletes :
    (dl[d].pc = "done" /\ dl[d].kind = "group" /\ dl[d].status = 200) =>
      \A k \in dl[d].ids \cup dl[d].removed : ~HasBlob(k) /\ ~HasRow(k)

\* C3: a GET whose lookup read a row with a past expiry answers 410, for a file
\* and for a group alike; it never goes on to the object store or to 200.
C3_ExpiredIsGone ==
  \A s \in 1..MaxServes :
    (\E r \in sv[s].seen : r.expires_at # NULL /\ r.expires_at < sv[s].t) =>
      sv[s].pc = "done" /\ sv[s].status = 410

\* C3 witness: 410 for a file whose blob the sweeper has already deleted while
\* its row is still there.
C3_Witness ==
  \E s \in 1..MaxServes :
    /\ sv[s].pc = "done" /\ sv[s].status = 410 /\ sv[s].kind = "file"
    /\ ~HasBlob(sv[s].key) /\ HasRow(sv[s].key)
    /\ sw.pc = "row" /\ sw.cur = sv[s].key

\* C4: the sanitized path has no segment '.' or '..', no empty segment, no
\* backslash and no leading '/'.  (The empty path has no segments.)
C4_SanitizedPathSafe ==
  sanOut # <<>> =>
    LET out == sanOut[1]
        segs == IF out = <<>> THEN <<>> ELSE Split(out, "/")
    IN /\ \A i \in 1..Len(segs) : segs[i] \notin {<<>>, <<".">>, DotDot}
       /\ ~Includes(out, "\\")
       /\ ~StartsWith(out, <<"/">>)

\* C4 witness: a path with '..' and a backslash has been sanitized to "a".
C4_Witness ==
  sanIn = <<".", ".", "\\", "a">> /\ sanOut = <<<<"a">>>>

\* A key is a group's own: the group id itself or group id + '/' + something.
KeyInGroup(k, g) == k = g \/ StartsWith(k, g \o <<"/">>)

\* C5: every blob key and every file_id lies in the group of the upload call
\* that wrote it, and so does every key a running upload is about to write.
C5_KeysStayInOwnGroup ==
  /\ \A b \in bucket : KeyInGroup(b.key, b.groupId)
  /\ \A r \in db : KeyInGroup(r.file_id, r.group_id)
  /\ \A u \in 1..nextId : \A k \in PlannedKeys(u) : KeyInGroup(k, baseId(u))
  /\ \A b \in bucket : \A u \in 1..nextId :
       b.groupId # baseId(u) => b.key \notin PlannedKeys(u)

\* C5 witness: two upload calls running at once have both written a blob.
C5_Witness ==
  /\ \E b1, b2 \in bucket : b1.groupId # b2.groupId
  /\ \A u \in 1..2 : up[u].pc \in {"put", "insert"}

C7_AccessCountExact ==
  \A r \in db : r.access_count = Hits(r.file_id)

\* C7 witness: two GETs of one file overlapped (the second read the row before
\* the first counted) and both counted.
C7_Witness ==
  \E s1, s2 \in 1..MaxServes :
    /\ s1 # s2 /\ sv[s1].key = sv[s2].key
    /\ sv[s1].status = 200 /\ sv[s2].status = 200
    /\ \A r \in sv[s1].seen \cup sv[s2].seen : r.access_count = 0
    /\ \E r \in db : r.file_id = sv[s1].key /\ r.access_count = 2

\* C8: a group DELETE that found members always ends with every selected blob
\* deleted and 200, also when one bucket.delete throws.
C8_GroupDeleteSurvivesBlobFailure ==
  \A d \in 1..MaxDeletes :
    (dl[d].pc = "done" /\ dl[d].kind = "group" /\ dl[d].todo # {}) =>
      dl[d].status = 200

\* C9: whenever a step removes a row, the blob under that row's file_id is no
\* longer in the object store.
C9_BlobGoesBeforeRow ==
  [][\A r \in db :
       (~\E q \in db' : q.file_id = r.file_id) =>
         ~\E b \in bucket' : b.key = r.file_id]_vars

\* C10: the record whose blob the sweeper has just deleted has an expiry that
\* is at or before the current time.
C10_SweeperTouchesOnlyExpired ==
  sw.pc = "row" =>
    \A r \in db : r.file_id = sw.cur =>
      r.expires_at # NULL /\ r.expires_at <= now

\* The keys of the stored records of InitSweep.
StoredKeys ==
  {baseId(1), baseId(2) \o <<"/", "a">>, baseId(2) \o <<"/", "b">>}

RowKeys(rows) == {r.file_id : r \in rows}

\* C11: a sweeper invocation selects at most BatchSize records, and a row that
\* disappears during the invocation is one of that batch, so that at most
\* BatchSize records go per invocation and the rest of the backlog stays.
C11_OneBatchPerRun ==
  [][/\ Cardinality(sw'.batch) <= BatchSize
     /\ Cardinality(sw'.removed) <= BatchSize
     /\ (RowKeys(db) \ RowKeys(db')) \subseteq (sw.batch \cap sw'.removed)]_vars

\* C11 witness: a run has ended having removed a full batch, and a record that
\* was past due when the run selected its batch is still stored.
C11_Witness ==
  /\ sw.pc = "done" /\ Cardinality(sw.removed) = BatchSize
  /\ \E r \in db : JsExpired(r.expires_at, sw.t) /\ HasBlob(r.file_id)

\* C12: the loop goes on while items remain, whatever failed: a run ends only
\* with every item of its batch either removed or failed, and deletedCount is
\* the number of items whose blob delete and row delete both succeeded.
C12_BatchSurvivesItemFailure ==
  /\ sw.pc = "blob" => sw.todo # {}
  /\ sw.pc = "row" => sw.cur \in sw.todo
  /\ sw.pc = "done" => sw.todo = {} /\ sw.batch \subseteq (sw.removed \cup sw.failed)
  /\ sw.deleted = Cardinality(sw.removed)
  /\ sw.removed \cap sw.todo = {}

\* C12 witness: in the first run, after the removal of one item has thrown, the
\* loop has deleted the blob of another item of the batch.
C12_Witness ==
  /\ sweeps = 1 /\ sw.pc = "row"
  /\ (sw.failed \cap sw.batch) # {} /\ sw.cur \notin sw.failed

\* C13: with the sweeper scheduled again and again and throws that come to an
\* end, every record that is past due is eventually absent from both stores.
C13_ExpiredEventuallyRemoved ==
  \A k \in StoredKeys :
    (\E r \in db : r.file_id = k /\ JsExpired(r.expires_at, now))
      ~> (~HasRow(k) /\ ~HasBlob(k))

\* C13 witness: a record whose removal threw in an earlier run has been removed
\* in full by the current run.
C13_Witness ==
  \E k \in sw.failed : k \in sw.removed /\ ~HasRow(k) /\ ~HasBlob(k)

\* C14 (as claimed): once a sweeper run has ended, no record that was past due
\* when the run began is left in the metadata store.
C14_SweptAllExpired ==
  sw.pc = "done" => \A r \in db : ~JsExpired(r.expires_at, sw.t)

\* C14 (amended): a record that a sweeper run has removed (blob delete and row
\* delete both succeeded) is in neither store, and a GET of its id that finds
\* no row answers 404 (500 when a store operation throws).
C14_RemovedIsGone ==
  \A k \in sw.removed :
    /\ ~HasRow(k) /\ ~HasBlob(k)
    /\ \A s \in 1..MaxServes :
         (sv[s].pc = "done" /\ sv[s].key = k /\ sv[s].kind # "file") =>
           \/ sv[s].status = 404
           \/ sv[s].status = 500 /\ faults > 0

\* C14 witness: GET of an id the sweeper has removed has answered 404.
C14_Witness ==
  \E s \in 1..MaxServes :
    /\ sv[s].pc = "done" /\ sv[s].status = 404 /\ sv[s].key \in sw.removed

\* C15: no read path answers 200 with a record that is past due: not GET
\* /f/{key}, for a file or for a group, and not GET /list.
C15_NoReadPathShowsExpired ==
  /\ \A s \in 1..MaxServes :
       (sv[s].pc = "done" /\ sv[s].status = 200) =>
         \A r \in sv[s].seen : ~JsExpired(r.expires_at, sv[s].t)
  /\ ls.status = 200 => \A f \in ls.files : ~JsExpired(f.expiresAt, ls.t)

\* The rows an upload call has inserted.
RowsOf(u) == {r \in db : r.group_id = baseId(u)}

\* The upload calls that passed validation.
Accepted == {u \in 1..nextId : up[u].status # 400}

RECURSIVE SumSizes(_)
SumSizes(n) == IF n = 0 THEN 0 ELSE fileSize(n) + SumSizes(n - 1)

\* C16: a call is a directory-group upload exactly when its flag is set, or it
\* has more than one file, or a sanitized path has a '/'; then every row has
\* file_id = group_id + '/' + sanitized path and that path as relative_path;
\* otherwise the row has file_id = group_id and no relative_path.
C16_DirectoryRule ==
  \A u \in Accepted :
    LET files == up[u].files
        nested == \E i \in 1..Len(files) : Includes(sanitizeRelativePath(files[i]), "/")
        isDir == up[u].flag \/ Len(files) > 1 \/ nested
    IN /\ up[u].dir = isDir
       /\ \A r \in RowsOf(u) :
            IF isDir
            THEN \E i \in 1..Len(files) :
                   /\ r.file_id = baseId(u) \o <<"/">> \o sanitizeRelativePath(files[i])
                   /\ r.relative_path = sanitizeRelativePath(files[i])
            ELSE r.file_id = baseId(u) /\ r.relative_path = NoPath

\* C16 witness: a single unflagged file with a nested path stored as a group
\* member, next to a single plain file stored under its group id.
C16_Witness ==
  \E u1, u2 \in Accepted :
    /\ ~up[u1].flag /\ Len(up[u1].files) = 1
    /\ \E r \in RowsOf(u1) : r.file_id = baseId(u1) \o <<"/", "a", "/", "b">>
    /\ \E r \in RowsOf(u2) : r.file_id = baseId(u2) /\ r.relative_path = NoPath

\* C17: a directory-batch call of N files that has ended, no store operation
\* having thrown, has answered 200, left exactly N rows with its group_id and
\* reported the sum of the N sizes.
C17_BatchMakesNRows ==
  \A u \in Accepted :
    (up[u].pc = "done" /\ up[u].dir /\ faults = 0) =>
      /\ up[u].status = 200
      /\ Cardinality(RowsOf(u)) = Len(up[u].files)
      /\ up[u].total = SumSizes(Len(up[u].files))

\* C18: rows with one group_id have one owner and one expires_at, and are the
\* rows of one upload call.
C18_GroupIsOneCall ==
  /\ \A r1, r2 \in db :
       r1.group_id = r2.group_id =>
         r1.api_key_id = r2.api_key_id /\ r1.expires_at = r2.expires_at
  /\ \A r \in db :
       \E u \in Accepted :
         /\ r.group_id = baseId(u) /\ r.file_id \in PlannedKeys(u)
         /\ r.api_key_id = up[u].owner /\ r.expires_at = up[u].exp
         /\ \A v \in Accepted : r.group_id = baseId(v) => v = u

\* C18 witness: a group of two rows with an expiry, and a group of another
\* owner without one.
C18_Witness ==
  \E r1, r2, r3 \in db :
    /\ r1 # r2 /\ r1.group_id = r2.group_id /\ r1.expires_at # NULL
    /\ r3.api_key_id # r1.api_key_id /\ r3.expires_at = NULL

\* C19: no two rows have the same file_id.
C19_FileIdUnique ==
  \A r1, r2 \in db : r1.file_id = r2.file_id => r1 = r2

\* C19 witness: an INSERT of a file_id that is already in the table has been
\* refused (the call ended with 500 though no store operation threw).
C19_Witness ==
  \E u \in Accepted :
    /\ up[u].pc = "done" /\ up[u].status = 500 /\ faults = 0
    /\ HasRow(ObjectKey(u, up[u].dir, up[u].paths[up[u].idx]))

\* C20: a row's size is the size of the blob stored under its file_id.
C20_SizeMatchesBlob ==
  \A r \in db : \A b \in bucket : b.key = r.file_id => b.size = r.size

\* The step in which upload call u is received and validated.
Received(u) == up[u].pc = "idle" /\ up'[u].pc # "idle"

\* An expires_at field that is malformed or out of range at call time t.
BadExpiration(raw, t) ==
  \/ raw.kind \in {"malformed", "invalid"}
  \/ raw.kind = "iso" /\ ~(raw.t > t /\ raw.t - t <= MaxExpiration)

ExpiryRule(kinds) ==
  \A u \in 1..MaxUploads :
    (Received(u) /\ up'[u].files # <<>> /\ up'[u].raw.kind \in kinds)
      => LET raw == up'[u].raw
         IN up'[u].status # 400
              <=> (raw.kind = "iso" /\ raw.t > now /\ raw.t - now <= MaxExpiration)

\* C22 as stated: every supplied expires_at is accepted exactly when it is a
\* well-formed timestamp in (call time, call time + horizon].
C22_SuppliedAcceptedIffValid ==
  [][ExpiryRule({"blank", "malformed", "invalid", "iso"})]_vars

\* C22: an expires_at that is not blank is accepted exactly when it is a
\* well-formed timestamp in (call time, call time + horizon]; a blank one is
\* accepted as no expiry; an accepted call carries no expiry or one in that
\* range, and each of its rows has that expires_at.
C22_NonBlankAcceptedIffValid ==
  /\ [][/\ ExpiryRule({"malformed", "invalid", "iso"})
        /\ \A u \in 1..MaxUploads :
             (Received(u) /\ up'[u].status # 400)
               => /\ up'[u].raw.kind \in {"absent", "blank"} => up'[u].exp = NULL
                  /\ \/ up'[u].exp = NULL
                     \/ up'[u].exp > now /\ up'[u].exp - now <= MaxExpiration]_vars
  /\ [](\A u \in Accepted : \A r \in RowsOf(u) : r.expires_at = up[u].exp)

\* A call with a blank expires_at stored a row without expiry, and a call
\* made later stored a row with one.
C22_Witness ==
  \E u, v \in Accepted :
    /\ up[u].raw.kind = "blank" /\ up[u].status = 200
    /\ \E r \in RowsOf(u) : r.expires_at = NULL
    /\ up[v].raw.kind = "iso" /\ up[v].status = 200
    /\ \E r \in RowsOf(v) : r.expires_at = MaxTime + MaxExpiration

\* The object key of the i-th file of call u, and the blob its put stores.
KeyOf(u, i) == ObjectKey(u, up[u].dir, up[u].paths[i])
BlobOf(u, i) == [key |-> KeyOf(u, i), size |-> fileSize(i), groupId |-> baseId(u)]

\* C23: when an upload call ends with 500 while writing its k-th file, every
\* file before k has its row and its blob in the stores, and neither the row
\* nor the blob of a file after k is there.
C23_FailureKeepsEarlierFiles ==
  \A u \in Accepted :
    up[u].status = 500 =>
      LET k == up[u].idx
      IN \A i \in 1..Len(up[u].files) :
           /\ i < k => UploadRow(u, i) \in db /\ BlobOf(u, i) \in bucket
           /\ i > k => UploadRow(u, i) \notin db /\ BlobOf(u, i) \notin bucket

\* C24: when the bucket lookup of a GET finds no blob under the key of a row
\* that is not expired, the request ends with 404 in that step and the rows
\* (access_count included) stay as they are; a request answered 404 made no
\* access update.
C24_MissingBlobIs404 ==
  /\ [][\A s \in 1..MaxServes :
          (/\ sv[s].pc = "get" /\ sv'[s].pc # "get" /\ faults' = faults
           /\ ~\E b \in bucket : b.key = sv[s].key)
            => /\ sv'[s].pc = "done" /\ sv'[s].status = 404
               /\ db' = db]_vars
  /\ [](\A s \in 1..MaxServes :
          (sv[s].kind = "file" /\ sv[s].status = 404) => sv[s].pc = "done")

\* A GET was answered 404 for a key whose row is stored, is not expired, was
\* never counted as accessed, and has no blob.
C24_Witness ==
  \E s \in 1..MaxServes : \E r \in db :
    /\ sv[s].status = 404 /\ sv[s].kind = "file" /\ sv[s].key = r.file_id
    /\ ~(r.expires_at # NULL /\ r.expires_at < now)
    /\ r.access_count = 0
    /\ ~\E b \in bucket : b.key = r.file_id

\* The URL path of a stored file; the ids of the model hold only characters
\* that a URL path segment carries as they are.
FileUrl(fileId) == <<"/", "f", "/">> \o fileId

\* C25: a GET whose key matches no file_id and is the group_id of rows that are
\* not expired is answered 200 without a bucket operation, and the listing has
\* exactly one link for each of those rows, to the URL of the row's file_id,
\* and no other link.
C25_GroupListing ==
  /\ [][\A s \in 1..MaxServes :
          LET rows == {r \in db : r.group_id = sv[s].key}
          IN (/\ sv[s].pc = "dir" /\ sv'[s].pc # "dir" /\ faults' = faults
              /\ rows # {}
              /\ \A r \in rows : ~(r.expires_at # NULL /\ r.expires_at < now))
               => /\ sv'[s].pc = "done" /\ sv'[s].status = 200
                  /\ sv'[s].gets = 0 /\ bucket' = bucket
                  /\ DOMAIN sv'[s].links = {FileUrl(r.file_id) : r \in rows}
                  /\ \A r \in rows : sv'[s].links[FileUrl(r.file_id)] = 1]_vars
  /\ [](\A s \in 1..MaxServes : sv[s].kind = "dir" => sv[s].gets = 0)

\* A group of two rows was listed with two links.
C25_Witness ==
  \E s \in 1..MaxServes :
    /\ sv[s].kind = "dir" /\ sv[s].status = 200 /\ sv[s].gets = 0
    /\ Cardinality(sv[s].seen) = 2
    /\ Cardinality(DOMAIN sv[s].links) = 2

\* The step in which fetch examines the Authorization header of a request.
Examined == rq' # rq

\* The handlers' requests: a handler is invoked in the step that changes them.
HandlerState == <<up, dl, ls>>

\* The identity a handler was invoked with, in a step that invokes one.
Invoked(route, caller) ==
  \/ /\ route = "upload"
     /\ \E u \in 1..MaxUploads :
          up[u].pc = "idle" /\ up'[u].pc # "idle" /\ up'[u].owner = caller
  \/ /\ route = "delete"
     /\ \E d \in 1..MaxDeletes :
          dl[d].pc = "idle" /\ dl'[d].pc # "idle" /\ dl'[d].caller = caller
  \/ /\ route = "list"
     /\ ls.pc = "idle" /\ ls'.pc # "idle" /\ ls'.caller = caller

SingleFileUploads == {u \in Accepted : up[u].status = 200 /\ ~up[u].dir}

\* C27: a GET of the fileId returned by a successful single-file upload, when
\* no store operation throws, finds the row, finds the blob and is answered
\* 200 with the blob that upload stored, its size as Content-Length and as
\* Content-Type the declared type, or application/octet-stream without one.
C27_RoundTrip ==
  [][\A s \in 1..MaxServes : \A u \in SingleFileUploads :
       LET key == IF sv[s].pc = "idle" THEN sv'[s].key ELSE sv[s].key
       IN (sv'[s] # sv[s] /\ key = baseId(u) /\ faults' = faults)
            => CASE sv[s].pc = "idle" -> sv'[s].pc = "get"
                 [] sv[s].pc = "get" -> sv'[s].pc = "upd"
                 [] sv[s].pc = "upd" ->
                      /\ sv'[s].status = 200
                      /\ sv'[s].body = {BlobOf(u, 1)}
                      /\ sv'[s].headers.contentLength = fileSize(1)
                      /\ sv'[s].headers.contentType =
                           IF up[u].types[1] = NoType THEN OctetStream
                           ELSE up[u].types[1]
                 [] OTHER -> TRUE]_vars

\* The value of the filename parameter of a Content-Disposition header: what
\* stands between the opening quote and the closing one.
FilenameValue(disposition) == SubSeq(disposition, 6, Len(disposition) - 1)

\* C28: the Content-Disposition header of every 200 response for a file holds
\* no CR and no LF, and every double quote inside its filename value is
\* escaped by a backslash before it.
C28_DispositionWellFormed ==
  \A s \in 1..MaxServes :
    (sv[s].kind = "file" /\ sv[s].status = 200) =>
      LET disposition == sv[s].headers.disposition
          value == FilenameValue(disposition)
      IN /\ \A i \in 1..Len(disposition) : disposition[i] \notin {"\r", "\n"}
         /\ \A i \in 1..Len(value) :
              value[i] = "\"" => (i > 1 /\ value[i - 1] = "\\")

\* The rows that the upload calls made with key id caller have stored.
RowsUploadedBy(caller) ==
  UNION {RowsOf(u) : u \in {v \in 1..nextId : up[v].owner = caller}}

\* C29: a GET /list answered 200 names every row that the caller's upload
\* calls have stored and that is in the table, and names no other row.
C29_ListIsCallersRows ==
  [][(ls' # ls /\ ls'.status = 200)
       => {f.fileId : f \in ls'.files}
            = {r.file_id : r \in RowsUploadedBy(ls'.caller)}]_vars

\* A listing named the caller's rows while another key's rows were stored.
C29_Witness ==
  /\ ls.status = 200 /\ ls.files # {}
  /\ \E r \in db : r.api_key_id # ls.caller
  /\ \E r \in db : r.api_key_id = ls.caller

\* C30: no request makes an exception leave fetch: every request ends in a
\* response.
C30_NoExceptionLeavesFetch ==
  rq.pc # "thrown"

\* The fields of a row that no operation may change.
Immutable(r) == [r EXCEPT !.access_count = 0]

\* C31: in every step, each stored row either stays with the same file_id,
\* group_id, original_name, relative_path, size, content_type, owner and
\* expires_at, or is removed; its access_count changes only in the step of a
\* GET of its key that answers 200; it is removed only in a step of a DELETE
\* by its owner or of the sweeper.
C31_RecordFrame ==
  [][\A r \in db :
       LET after == {r2 \in db' : r2.file_id = r.file_id}
       IN /\ \A r2 \in after : Immutable(r2) = Immutable(r)
          /\ \A r2 \in after :
               r2.access_count # r.access_count
                 => \E s \in 1..MaxServes :
                      /\ sv[s].pc = "upd" /\ sv[s].key = r.file_id
                      /\ sv'[s].pc = "done" /\ sv'[s].status = 200
          /\ after = {}
               => \/ \E d \in 1..MaxDeletes :
                       dl'[d] # dl[d] /\ dl[d].caller = r.api_key_id
                  \/ sw' # sw]_vars

\* C32: in the step that inserts a row, the blob of that file is already in
\* the object store under the row's file_id, and stays there in that step.
C32_BlobBeforeRow ==
  [][\A r \in {x \in db' : ~HasRow(x.file_id)} :
       \E b \in bucket \cap bucket' :
         b.key = r.file_id /\ b.size = r.size /\ b.groupId = r.group_id]_vars

\* C33: no row and no blob is stored under a key made of a group id, '/' and
\* an empty relative path.
C33_NoEmptyPathKey ==
  /\ \A r \in db : r.file_id # r.group_id \o <<"/">>
  /\ \A b \in bucket : b.key # b.groupId \o <<"/">>

\* C34: when a store operation of a single-file DELETE throws, the request
\* ends with 500 in that step, which removes no row; a throw of the bucket
\* delete removes no blob either. A request answered 500 takes no further step.
C34_FailedDeleteKeepsRow ==
  /\ [][\A d \in 1..MaxDeletes :
          (/\ dl'[d] # dl[d] /\ faults' # faults
           /\ dl[d].pc \in {"idle", "blob1", "row1"})
            => /\ dl'[d].pc = "done" /\ dl'[d].status = 500
               /\ db' = db /\ bucket' = bucket]_vars
  /\ [](\A d \in 1..MaxDeletes : dl[d].status = 500 => dl[d].pc = "done")

\* A single-file DELETE by the owner was answered 500 and the row and the blob
\* of its key are still stored.
C34_Witness ==
  \E d \in 1..MaxDeletes : \E r \in db :
    /\ dl[d].status = 500 /\ dl[d].kind = "file"
    /\ r.file_id = dl[d].key /\ r.api_key_id = dl[d].caller
    /\ \E b \in bucket : b.key = r.file_id

\* C35: a DELETE whose caller owns no row with the key as file_id goes on to
\* the group lookup, and one whose caller owns no row with the key as group_id
\* either is answered 404, when no store operation throws; neither step
\* changes a store, and a request answered 404 has selected and removed
\* nothing.
C35_NotFoundDeletesNothing ==
  /\ [][\A d \in 1..MaxDeletes :
          (dl'[d] # dl[d] /\ faults' = faults) =>
            LET key == dl'[d].key
                caller == dl'[d].caller
            IN /\ (/\ dl[d].pc = "idle"
                   /\ ~\E r \in db : r.file_id = key /\ r.api_key_id = caller)
                    => dl'[d].pc = "group" /\ db' = db /\ bucket' = bucket
               /\ (/\ dl[d].pc = "group"
                   /\ ~\E r \in db : r.group_id = key /\ r.api_key_id = caller)
                    => dl'[d].status = 404 /\ db' = db /\ bucket' = bucket]_vars
  /\ [](\A d \in 1..MaxDeletes :
          dl[d].status = 404
            => /\ dl[d].pc = "done" /\ dl[d].kind = ""
               /\ dl[d].ids = {} /\ dl[d].removed = {})

\* A DELETE was answered 404 for a key whose row and blob, owned by another
\* key, are stored.
C35_Witness ==
  \E d \in 1..MaxDeletes : \E r \in db :
    /\ dl[d].status = 404
    /\ r.file_id = dl[d].key /\ r.api_key_id # dl[d].caller
    /\ \E b \in bucket : b.key = r.file_id

\* C36: the files of one upload call have pairwise distinct object keys.
C36_DistinctKeysPerCall ==
  \A u \in Accepted :
    \A i, j \in 1..Len(up[u].files) : i # j => KeyOf(u, i) # KeyOf(u, j)


\* The URL paths handed out for file i of upload u: the unencoded one of the
\* upload response and the encoded one of /list and of the directory listing.
UrlsOf(u, i) == {FilePrefix \o KeyOf(u, i), FilePrefix \o encodeFileIdForUrl(KeyOf(u, i))}

\* C37: a GET of the URL handed out for a stored file reaches handleServe with
\* exactly that file's file_id.
C37_UrlReachesItsFile ==
  [][\A u \in Accepted : \A i \in 1..Len(up[u].files) :
       (rq' # rq /\ rq'.route = "get" /\ rq'.path \in UrlsOf(u, i))
         => (rq'.pc = "handler" /\ rq'.fileId = KeyOf(u, i))]_vars

\* C38: a DELETE of the URL of one member of a group, sent by the owner,
\* removes no row and no blob other than that member's.
C38_MemberDeleteIsOneFile ==
  [][\A u \in Accepted : \A i \in 1..Len(up[u].files) :
       (/\ up[u].dir
        /\ rq.pc = "handler" /\ rq.route = "delete"
        /\ rq.caller = up[u].owner /\ rq.path \in UrlsOf(u, i))
         => /\ \A r \in db : HasRow(r.file_id)' \/ r.file_id = KeyOf(u, i)
            /\ \A b \in bucket \ bucket' : b.key = KeyOf(u, i)]_vars


\* C39: the sweeper selects no record that a GET at the instant of the
\* selection would still serve: every selected record is expired by the
\* check of handleServe too.
C39_SweeperAgreesWithServe ==
  [][(sw.pc \in {"idle", "done"} /\ sw' # sw)
       => \A r \in db : r.file_id \in sw'.batch => JsExpired(r.expires_at, now)]_vars

====
